---- MODULE Spec2Model ----
(***************************************************************************)
(* SESTransport (lib/ses-transport/index.js): the admission-controlled     *)
(* dispatch core.  send() admits a mail when a connection slot and rate    *)
(* budget are free and queues it otherwise; _sent() releases the slot and  *)
(* _checkRatedQueue() re-drives the queue, also from the recheck timer.    *)
(*                                                                         *)
(* Time.  The code reads Date.now() and only ever compares differences of  *)
(* timestamps, so every timestamp is kept relative to the current instant: *)
(* now is the origin, a logged admission is a number <= now, a timer's due *)
(* time a number >= now.  Tick(d) lets d milliseconds pass by shifting     *)
(* them all.  A timestamp that has reached now - rateInterval is outside   *)
(* the window for every later check and stays there; a due timer stays     *)
(* due.                                                                    *)
(*                                                                         *)
(* Jobs.  A job is one (mail, callback) pair handed to send().  jobs holds *)
(* the jobs whose callback has not run yet, in the order they were         *)
(* submitted, and records what the environment sees of each: where it is,  *)
(* what the executor reported.  A job has no name in the code; here it is  *)
(* named by its index in jobs, so a job submitted earlier has the smaller  *)
(* index, and the pending queue holds indices.  A job is gone once its     *)
(* callback has run: it leaves jobs and the indices of the jobs submitted  *)
(* after it fall by one, in the pending queue too.  The executor is        *)
(* _send's asynchronous part: the composition of the raw message and the   *)
(* call of ses.sendRawEmail, which touch no field of the transport until   *)
(* they report, so they are one step.                                      *)
(*                                                                         *)
(* History.  admitLog holds the admissions of the last rateInterval        *)
(* milliseconds.  drained and delivered describe the step just taken: the  *)
(* job it moved from the pending queue to the executor, and the callback   *)
(* it invoked, with the index the job had and the arguments it was given.  *)
(***************************************************************************)
EXTENDS Integers, Sequences, FiniteSets

MaxJobs == 3
MaxOption == 2
MaxBurst == 3
LiveOption == 1

Jobs == 1..MaxJobs
Errors == {"CompositionError", "TransportError"}
Outcomes == Errors \cup {"info"}
TickSteps == {999, 1000}

Infinity == 1000000
rateInterval == 1000
null == 0
now == 0

VARIABLES options, maxConnections, connections, sendingRate, sendingRateTTL,
          rateMessages, pending, timers, jobs, admitLog, drained, delivered

vars == <<options, maxConnections, connections, sendingRate, sendingRateTTL,
          rateMessages, pending, timers, jobs, admitLog, drained, delivered>>

Max(a, b) == IF a >= b THEN a ELSE b

\* A ceiling that defaults to 1 instead of Infinity.
Ceiling_one(option) == IF option = 0 THEN 1 ELSE option

\* Number(option) || Infinity: an option that is not set (0 here) is falsy.
Ceiling(option) == IF option = 0 THEN Infinity ELSE option

\* A job as send() receives it.
NewJob == [stage |-> "submitted", result |-> "none", admits |-> 0, releases |-> 0]

\* The fields of the transport that the dispatch core reads and writes.
Transport == [connections |-> connections, rateMessages |-> rateMessages,
              sendingRateTTL |-> sendingRateTTL, timers |-> timers,
              pending |-> pending]

Install(t) ==
    /\ connections' = t.connections
    /\ rateMessages' = t.rateMessages
    /\ sendingRateTTL' = t.sendingRateTTL
    /\ timers' = t.timers
    /\ pending' = t.pending

\* clearTimeout that cancels nothing.
clearTimeout_keep(tm, handle) == tm

\* clearTimeout(handle): the timer the handle names, if still outstanding.
clearTimeout(tm, handle) == {x \in tm : x.id # handle}

\* A handle no outstanding timer uses.
NewTimerId(tm) ==
    CHOOSE i \in 1..(Cardinality(tm) + 1) : \A x \in tm : x.id # i

\* setTimeout(cb, ms): a delay below 1 ms is run as 1 ms.
setTimeout(tm, ms) ==
    tm \cup {[id |-> NewTimerId(tm), due |-> now + (IF ms >= 1 THEN ms ELSE 1)]}

\* The loop with the window closed at its far end: >= instead of >.
RECURSIVE Expired_ge(_, _)
Expired_ge(log, i) ==
    IF i > Len(log) \/ log[i] >= now - rateInterval
    THEN i - 1
    ELSE Expired_ge(log, i + 1)

\* The loop of _checkSendingRate: how many leading entries left the window.
RECURSIVE Expired(_, _)
Expired(log, i) ==
    IF i > Len(log) \/ log[i] > now - rateInterval
    THEN i - 1
    ELSE Expired(log, i + 1)

\* rateMessages.splice(0, remove)
splice(log, remove) == SubSeq(log, remove + 1, Len(log))

\* The argument of setTimeout in _checkSendingRate: now - delay.
RecheckDelay(log) ==
    LET delay == Max(log[1] + 1001, now + 20)
    IN  now - delay

\* _checkSendingRate that refuses without setTimeout.
_checkSendingRate_noArm(t) ==
    LET cleared == clearTimeout(t.timers, t.sendingRateTTL)
        log == splice(t.rateMessages, Expired(t.rateMessages, 1))
    IN  [ok |-> Len(log) < sendingRate,
         t |-> [t EXCEPT !.timers = cleared, !.rateMessages = log]]

\* _checkSendingRate with the ceiling compared by <= instead of <.
_checkSendingRate_le(t) ==
    LET cleared == clearTimeout(t.timers, t.sendingRateTTL)
        log == splice(t.rateMessages, Expired(t.rateMessages, 1))
    IN  IF Len(log) <= sendingRate
        THEN [ok |-> TRUE,
              t |-> [t EXCEPT !.timers = cleared, !.rateMessages = log]]
        ELSE [ok |-> FALSE,
              t |-> [t EXCEPT !.timers = setTimeout(cleared, RecheckDelay(log)),
                              !.sendingRateTTL = NewTimerId(cleared),
                              !.rateMessages = log]]

_checkSendingRate(t) ==
    LET cleared == clearTimeout(t.timers, t.sendingRateTTL)
        log == splice(t.rateMessages, Expired(t.rateMessages, 1))
    IN  IF Len(log) < sendingRate
        THEN [ok |-> TRUE,
              t |-> [t EXCEPT !.timers = cleared, !.rateMessages = log]]
        ELSE [ok |-> FALSE,
              t |-> [t EXCEPT !.timers = setTimeout(cleared, RecheckDelay(log)),
                              !.sendingRateTTL = NewTimerId(cleared),
                              !.rateMessages = log]]

\* Busy with the ceiling compared by > instead of >=.
Busy_gt(t) == t.connections > maxConnections

\* this.connections >= this.maxConnections, as send and _checkRatedQueue ask.
Busy(t) == t.connections >= maxConnections

\* _send without this.connections++.
_send_noCount(t) == [t EXCEPT !.rateMessages = Append(@, now)]

\* The first two statements of _send.
_send(t) ==
    [t EXCEPT !.connections = @ + 1, !.rateMessages = Append(@, now)]

\* _checkRatedQueue reading pending[0] without shifting it off the queue.
_checkRatedQueue_noShift(t) ==
    IF Busy(t)
    THEN [t |-> t, next |-> <<>>]
    ELSE LET c == _checkSendingRate(t)
         IN  IF ~c.ok \/ Len(c.t.pending) = 0
             THEN [t |-> c.t, next |-> <<>>]
             ELSE [t |-> _send(c.t), next |-> <<Head(c.t.pending)>>]

\* _checkRatedQueue taking the job with pending.pop() instead of shift().
_checkRatedQueue_pop(t) ==
    IF Busy(t)
    THEN [t |-> t, next |-> <<>>]
    ELSE LET c == _checkSendingRate(t)
             n == Len(c.t.pending)
         IN  IF ~c.ok \/ n = 0
             THEN [t |-> c.t, next |-> <<>>]
             ELSE [t |-> _send([c.t EXCEPT !.pending = SubSeq(@, 1, n - 1)]),
                   next |-> <<c.t.pending[n]>>]

\* The transport after _checkRatedQueue, and the job it handed to _send.
_checkRatedQueue(t) ==
    IF Busy(t)
    THEN [t |-> t, next |-> <<>>]
    ELSE LET c == _checkSendingRate(t)
         IN  IF ~c.ok \/ Len(c.t.pending) = 0
             THEN [t |-> c.t, next |-> <<>>]
             ELSE [t |-> _send([c.t EXCEPT !.pending = Tail(@)]),
                   next |-> <<Head(c.t.pending)>>]

\* _sent that takes the newest timestamp back out of the admission log.
_sent_rollback(t) ==
    _checkRatedQueue([t EXCEPT !.connections = @ - 1,
                               !.rateMessages = SubSeq(@, 1, Len(@) - 1)])

\* _sent without the call of _checkRatedQueue.
_sent_noRedrive(t) ==
    [t |-> [t EXCEPT !.connections = @ - 1], next |-> <<>>]

\* _sent without this.connections--.
_sent_noRelease(t) == _checkRatedQueue(t)

_sent(t) == _checkRatedQueue([t EXCEPT !.connections = @ - 1])

\* Job j is handed to the executor by _send.
Admit(js, j) ==
    [js EXCEPT ![j].stage = "executing", ![j].admits = @ + 1]

AdmitAll(js, next) == IF next = <<>> THEN js ELSE Admit(js, next[1])

\* The admission history after the jobs of next were handed to _send.
Logged(next) == IF next = <<>> THEN admitLog ELSE Append(admitLog, now)

\* Job j is pushed on the pending queue.
Queue(js, j) == [js EXCEPT ![j].stage = "queued"]

\* The index of a job that had index k, once the job of index j is gone.
Shift(k, j) == IF k > j THEN k - 1 ELSE k

\* The jobs that remain when job j is gone.
Remove(js, j) ==
    [i \in 1..(Len(js) - 1) |-> IF i < j THEN js[i] ELSE js[i + 1]]

\* The pending queue under the new indices of its jobs.
Renamed(queue, j) == [i \in 1..Len(queue) |-> Shift(queue[i], j)]

\* Job j is the one of its stage that was submitted first.
Oldest(j, stage) ==
    /\ j \in DOMAIN jobs
    /\ jobs[j].stage = stage
    /\ \A k \in 1..(j - 1) : jobs[k].stage # stage

Init ==
    /\ options \in [maxConnections : 0..MaxOption, sendingRate : 0..MaxOption]
    /\ maxConnections = Ceiling(options.maxConnections)
    /\ connections = 0
    /\ sendingRate = Ceiling(options.sendingRate)
    /\ sendingRateTTL = null
    /\ rateMessages = <<>>
    /\ pending = <<>>
    /\ timers = {}
    /\ jobs = <<>>
    /\ admitLog = <<>>
    /\ drained = <<>>
    /\ delivered = <<>>

\* send with an executor that fails before _send returns and a callback that
\* is called directly, not deferred: job j is admitted, reported, released
\* and notified within the one call.
send_sync(j) ==
    /\ j = Len(jobs) + 1
    /\ Len(admitLog) < MaxBurst
    /\ LET t == Transport
           c == _checkSendingRate(t)
           r == _sent(_send(c.t))
           js == Append(jobs, NewJob)
       IN  IF Busy(t)
           THEN /\ Install([t EXCEPT !.pending = Append(@, j)])
                /\ jobs' = Queue(js, j)
                /\ admitLog' = admitLog
                /\ drained' = <<>>
                /\ delivered' = <<>>
           ELSE IF ~c.ok
           THEN /\ Install([c.t EXCEPT !.pending = Append(@, j)])
                /\ jobs' = Queue(js, j)
                /\ admitLog' = admitLog
                /\ drained' = <<>>
                /\ delivered' = <<>>
           ELSE /\ Install(r.t)
                /\ jobs' = AdmitAll(jobs, r.next)
                /\ admitLog' = Append(Logged(<<j>>), now)
                /\ drained' = r.next
                /\ delivered' = <<[job |-> j, args |-> "CompositionError"]>>
    /\ UNCHANGED <<options, maxConnections, sendingRate>>

\* send that asks _checkSendingRate before it looks at the connections.
send_rateFirst(j) ==
    /\ j = Len(jobs) + 1
    /\ Len(admitLog) < MaxBurst
    /\ LET c == _checkSendingRate(Transport)
           js == Append(jobs, NewJob)
       IN  IF ~c.ok \/ Busy(c.t)
           THEN /\ Install([c.t EXCEPT !.pending = Append(@, j)])
                /\ jobs' = Queue(js, j)
                /\ admitLog' = admitLog
           ELSE /\ Install(_send(c.t))
                /\ jobs' = Admit(js, j)
                /\ admitLog' = Logged(<<j>>)
    /\ drained' = <<>>
    /\ delivered' = <<>>
    /\ UNCHANGED <<options, maxConnections, sendingRate>>

\* send(mail, callback): the mail and its callback are job j, the newest.
send(j) ==
    /\ j = Len(jobs) + 1
    /\ Len(admitLog) < MaxBurst
    /\ LET t == Transport
           c == _checkSendingRate(t)
           js == Append(jobs, NewJob)
       IN  IF Busy(t)
           THEN /\ Install([t EXCEPT !.pending = Append(@, j)])
                /\ jobs' = Queue(js, j)
                /\ admitLog' = admitLog
           ELSE IF ~c.ok
           THEN /\ Install([c.t EXCEPT !.pending = Append(@, j)])
                /\ jobs' = Queue(js, j)
                /\ admitLog' = admitLog
           ELSE /\ Install(_send(c.t))
                /\ jobs' = Admit(js, j)
                /\ admitLog' = Logged(<<j>>)
    /\ drained' = <<>>
    /\ delivered' = <<>>
    /\ UNCHANGED <<options, maxConnections, sendingRate>>

\* The callback send and _checkRatedQueue give to _send: the job's own
\* callback is deferred with setImmediate, then _sent() runs.
Report(j, res) ==
    LET r == _sent(Transport)
        js == [jobs EXCEPT ![j].stage = "reported", ![j].result = res,
                           ![j].releases = @ + 1]
    IN  /\ Install(r.t)
        /\ jobs' = AdmitAll(js, r.next)
        /\ admitLog' = Logged(r.next)
        /\ drained' = r.next
        /\ delivered' = <<>>
        /\ UNCHANGED <<options, maxConnections, sendingRate>>

\* setImmediate(() => getRawMessage(...)) and what follows it: the executor
\* ends with a composition error, a transport error or the delivery info,
\* and calls the callback _send was given.
execute(j, outcome) ==
    /\ j \in DOMAIN jobs
    /\ jobs[j].stage = "executing"
    /\ Report(j, outcome)

\* The deferred call without the executor's arguments.
callback_noArgs(j) ==
    /\ j \in DOMAIN jobs
    /\ jobs[j].stage = "reported"
    /\ jobs' = Remove(jobs, j)
    /\ pending' = Renamed(pending, j)
    /\ delivered' = <<[job |-> j, args |-> "none"]>>
    /\ drained' = <<>>
    /\ UNCHANGED <<options, maxConnections, connections, sendingRate,
                   sendingRateTTL, rateMessages, timers, admitLog>>

\* The deferred call of the job's own callback runs: callback(...args).
callback(j) ==
    /\ j \in DOMAIN jobs
    /\ jobs[j].stage = "reported"
    /\ jobs' = Remove(jobs, j)
    /\ pending' = Renamed(pending, j)
    /\ delivered' = <<[job |-> j, args |-> jobs[j].result]>>
    /\ drained' = <<>>
    /\ UNCHANGED <<options, maxConnections, connections, sendingRate,
                   sendingRateTTL, rateMessages, timers, admitLog>>

\* A due recheck timer fires: () => this._checkRatedQueue().
Timeout(x) ==
    /\ x \in timers
    /\ x.due <= now
    /\ LET r == _checkRatedQueue([Transport EXCEPT !.timers = @ \ {x}])
       IN  /\ Install(r.t)
           /\ jobs' = AdmitAll(jobs, r.next)
           /\ admitLog' = Logged(r.next)
           /\ drained' = r.next
    /\ delivered' = <<>>
    /\ UNCHANGED <<options, maxConnections, sendingRate>>

\* d milliseconds pass.
Tick(d) ==
    /\ rateMessages' = [i \in 1..Len(rateMessages) |->
                           Max(rateMessages[i] - d, now - rateInterval)]
    /\ timers' = {[x EXCEPT !.due = Max(@ - d, now)] : x \in timers}
    /\ admitLog' = SelectSeq([i \in 1..Len(admitLog) |-> admitLog[i] - d],
                             LAMBDA at : at > now - rateInterval)
    /\ drained' = <<>>
    /\ delivered' = <<>>
    /\ UNCHANGED <<options, maxConnections, connections, sendingRate,
                   sendingRateTTL, pending, jobs>>

Next ==
    \/ \E j \in Jobs : send(j)
    \/ \E j \in Jobs, outcome \in Outcomes : execute(j, outcome)
    \/ \E j \in Jobs : callback(j)
    \/ \E x \in timers : Timeout(x)
    \/ \E d \in TickSteps : Tick(d)

Spec == Init /\ [][Next]_vars

\* Time advances, a due timer fires, the executor reports every job it was
\* handed and every deferred callback runs; nothing obliges callers to
\* submit.  An index names another job once an older job is gone, so the
\* last two are asked of the oldest job of the stage, whichever it is: no
\* job is submitted before a job that is there, so each job gets to be the
\* oldest of its stage unless it moves on before.
Fairness ==
    /\ WF_vars(\E d \in TickSteps : Tick(d))
    /\ WF_vars(\E x \in timers : Timeout(x))
    /\ WF_vars(\E j \in Jobs, outcome \in Outcomes :
                  Oldest(j, "executing") /\ execute(j, outcome))
    /\ WF_vars(\E j \in Jobs : Oldest(j, "reported") /\ callback(j))

\* The transports the liveness claims are checked for: each ceiling unset
\* or at most LiveOption, so that a refusal of either kind takes few jobs.
LiveInit ==
    /\ Init
    /\ options.maxConnections <= LiveOption
    /\ options.sendingRate <= LiveOption

LiveSpec == LiveInit /\ [][Next]_vars /\ Fairness

(***************************************************************************)
(* Vocabulary of the claims.                                               *)
(***************************************************************************)

Live(j) == j \in DOMAIN jobs

Queued(j) == Live(j) /\ jobs[j].stage = "queued"

\* Job j is with the executor: handed to _send and not yet reported.
InFlight(j) == Live(j) /\ jobs[j].stage = "executing"

\* The executor has reported job j and its callback has not run yet.
Reported(j) == Live(j) /\ jobs[j].stage = "reported"

\* Job j was handed to _send.
Admitted(j) == InFlight(j) \/ Reported(j)

InPending(j) == \E i \in 1..Len(pending) : pending[i] = j

\* The step just taken ran the callback of a job older than job j was, so
\* what was job j now goes by the index j - 1.
Renumbered(j) == delivered # <<>> /\ delivered[1].job < j

\* The step just taken ran the callback of job j.
CalledBack(j) == delivered # <<>> /\ delivered[1].job = j

(***************************************************************************)
(* C1.  In every reachable state, after any interleaving of submissions,   *)
(* completions (success or failure) and recheck-timer firings, the         *)
(* in-flight counter satisfies 0 <= connections <= maxConnections.         *)
(***************************************************************************)
C1_ConnectionsWithinCeiling ==
    /\ 0 <= connections
    /\ connections <= maxConnections

\* The ceiling is reached again right after a completion released a slot and
\* the head of the queue took it; another job still waits.
C1_Witness ==
    /\ maxConnections < Infinity
    /\ connections = maxConnections
    /\ drained # <<>>
    /\ pending # <<>>
    /\ \E j \in Jobs : Reported(j)

(***************************************************************************)
(* C2.  At every instant the admissions of the last rateInterval           *)
(* milliseconds (the window that ends now, its far end excluded) number at *)
(* most sendingRate; so no window of that length holds more than           *)
(* sendingRate admissions, and with sendingRate = 1 a second job is not    *)
(* admitted before a full rateInterval has passed since the first.         *)
(***************************************************************************)
C2_RateWithinCeiling ==
    /\ Len(admitLog) <= sendingRate
    /\ \A i \in 1..Len(admitLog) : admitLog[i] > now - rateInterval

\* sendingRate is 1, one job was admitted 999 ms ago, the next still waits
\* and a recheck timer is armed.
C2_Witness ==
    /\ sendingRate = 1
    /\ admitLog = <<now - 999>>
    /\ pending # <<>>
    /\ \E x \in timers : x.id = sendingRateTTL

(***************************************************************************)
(* C3.  Jobs are admitted in submission order: no job is with the executor *)
(* (or beyond) while a job submitted before it still waits in the pending  *)
(* queue.                                                                  *)
(***************************************************************************)
C3_AdmittedInSubmissionOrder ==
    \A a \in Jobs, b \in Jobs :
        (a < b /\ Live(a) /\ Admitted(b)) => Admitted(a)

(***************************************************************************)
(* C4.  A job is handed to the executor at most once and released at most  *)
(* once; a job in the pending queue has not been handed to the executor;   *)
(* a callback is invoked only for a job that was admitted and whose        *)
(* executor has reported, that job is not in the pending queue, and the    *)
(* invocation ends the job, so its callback is not invoked again.          *)
(***************************************************************************)
C4_AtMostOnce ==
    /\ [](\A j \in Jobs :
            /\ Live(j) => /\ jobs[j].admits <= 1
                          /\ jobs[j].releases <= jobs[j].admits
                          /\ Reported(j) <=> jobs[j].releases = 1
            /\ InPending(j) => Queued(j) /\ jobs[j].admits = 0)
    /\ [](\A i \in 1..Len(pending), k \in 1..Len(pending) :
            pending[i] = pending[k] => i = k)
    /\ [][/\ Len(delivered') <= 1
          /\ \A i \in 1..Len(delivered') :
               LET j == delivered'[i].job
               IN  /\ Reported(j)
                   /\ jobs[j].admits = 1
                   /\ jobs[j].releases = 1
                   /\ ~InPending(j)
                   /\ jobs[j].result # "none"
                   /\ jobs' = Remove(jobs, j)
          /\ delivered' = <<>> =>
               /\ Len(jobs') >= Len(jobs)
               /\ \A j \in Jobs : Reported(j) => jobs'[j] = jobs[j]
       ]_vars

\* A callback has just run while another job is with the executor and a
\* third waits in the queue.
C4_Witness ==
    /\ delivered # <<>>
    /\ pending # <<>>
    /\ \E j \in Jobs : InFlight(j)

(***************************************************************************)
(* C5.  Under fairness every submitted job, queued ones included, is       *)
(* eventually admitted and its callback eventually runs: a job that waits  *)
(* under an index is later admitted under it or goes by a smaller index,   *)
(* and a job that goes by an index later has its callback run or goes by a *)
(* smaller index.  Indices only fall, so each job reaches both.            *)
(***************************************************************************)
C5_EveryJobCompletes ==
    \A j \in Jobs :
        /\ Queued(j) ~> (Admitted(j) \/ Renumbered(j))
        /\ Live(j) ~> (CalledBack(j) \/ Renumbered(j))

(***************************************************************************)
(* C6.  Every admission is eventually followed by exactly one release,     *)
(* whatever the outcome of the execution: a job's releases never exceed    *)
(* its admissions, connections counts exactly the admitted jobs not yet    *)
(* released, and a job that is with the executor under an index is later   *)
(* released under it or goes by a smaller index.                           *)
(***************************************************************************)
C6_ReleaseBalancesAdmit ==
    /\ [](\A j \in Jobs :
            Live(j) => /\ jobs[j].releases <= jobs[j].admits
                       /\ jobs[j].releases <= 1
                       /\ InFlight(j) <=> jobs[j].admits = jobs[j].releases + 1)
    /\ [](connections = Cardinality({j \in Jobs : InFlight(j)}))
    /\ \A j \in Jobs :
          InFlight(j) ~> \/ /\ Reported(j)
                            /\ jobs[j].admits = 1
                            /\ jobs[j].releases = 1
                         \/ Renumbered(j)

\* Releases after a success, a composition error and a transport error.
C6_Witness ==
    /\ \E j \in Jobs : Reported(j) /\ jobs[j].result = "info"
    /\ \E j \in Jobs : Reported(j) /\ jobs[j].result = "CompositionError"
    /\ \E j \in Jobs : Reported(j) /\ jobs[j].result = "TransportError"
    /\ \A j \in Jobs : Live(j) => jobs[j].releases = 1
    /\ connections = 0

(***************************************************************************)
(* C7.  When the executor reports an error for an admitted job X, that     *)
(* error is what X's callback receives; the release takes one off the      *)
(* in-flight counter, X is not queued or executed again, and the head of   *)
(* the queue is admitted in the same step whenever the freed slot and the  *)
(* rate window allow it.                                                   *)
(***************************************************************************)
ErrorReported(j) ==
    /\ InFlight(j)
    /\ delivered' = <<>>
    /\ jobs'[j].stage = "reported"
    /\ jobs'[j].result \in Errors

\* After the release the head of the queue can be admitted.
HeadAdmissible ==
    /\ pending # <<>>
    /\ connections - 1 < maxConnections
    /\ Len(SelectSeq(rateMessages, LAMBDA at : at > now - rateInterval))
           < sendingRate

C7_ErrorIsTerminal ==
    [][\A j \in Jobs :
        /\ ErrorReported(j) =>
              /\ jobs'[j].releases = jobs[j].releases + 1
              /\ jobs'[j].admits = jobs[j].admits
              /\ connections' = connections - 1 + Len(drained')
              /\ ~ \E i \in 1..Len(pending') : pending'[i] = j
              /\ IF HeadAdmissible
                 THEN /\ drained' = <<Head(pending)>>
                      /\ pending' = Tail(pending)
                      /\ jobs'[Head(pending)].stage = "executing"
                 ELSE /\ drained' = <<>>
                      /\ pending' = pending
        /\ (Reported(j) /\ jobs[j].result \in Errors) =>
              \/ /\ delivered' = <<>>
                 /\ jobs'[j] = jobs[j]
              \/ /\ delivered' = <<[job |-> j, args |-> jobs[j].result]>>
                 /\ jobs' = Remove(jobs, j)
                 /\ connections' = connections
                 /\ pending' = Renamed(pending, j)
              \/ /\ delivered' # <<>>
                 /\ delivered'[1].job # j
                 /\ jobs'[Shift(j, delivered'[1].job)] = jobs[j]
    ]_vars

\* The step just taken is the report of a composition error (no timer
\* exists without a rate ceiling, and no other job is in the reported
\* stage): it released the slot and admitted the head of the queue.
C7_Witness ==
    /\ sendingRate = Infinity
    /\ maxConnections = 1
    /\ connections = 1
    /\ \E j \in Jobs :
          /\ Reported(j)
          /\ jobs[j].result = "CompositionError"
          /\ \A k \in Jobs \ {j} : ~Reported(k)
    /\ drained # <<>>

(***************************************************************************)
(* C8.  The pending queue is first in, first out: it holds its jobs in the *)
(* order they were submitted, it changes only by a push at its tail or by  *)
(* the removal of its head, and the job _checkRatedQueue hands to the      *)
(* executor is that head.  (The callback of a job changes the indices the  *)
(* queue names its jobs by, not the jobs or their order.)                  *)
(***************************************************************************)
C8_PendingIsFifo ==
    /\ [](\A i \in 1..Len(pending), k \in 1..Len(pending) :
            i < k => pending[i] < pending[k])
    /\ [][IF delivered' # <<>>
          THEN /\ pending' = Renamed(pending, delivered'[1].job)
               /\ drained' = <<>>
          ELSE /\ \/ pending' = pending
                  \/ /\ pending' = Append(pending, Len(jobs'))
                     /\ Len(jobs') = Len(jobs) + 1
                     /\ drained' = <<>>
                  \/ pending # <<>> /\ pending' = Tail(pending)
               /\ (pending # <<>> /\ pending' = Tail(pending)) <=>
                     (pending # <<>> /\ drained' = <<Head(pending)>>)
               /\ drained' # <<>> => jobs'[drained'[1]].stage = "executing"
       ]_vars

\* Two jobs waited; the one submitted first was handed to the executor and
\* the other is now the head.
C8_Witness ==
    /\ drained # <<>>
    /\ pending # <<>>
    /\ drained[1] < pending[1]
    /\ InFlight(drained[1])

(***************************************************************************)
(* C9.  A job's callback never runs in the step that admits the job, be it *)
(* send or a queue drain: the step that invokes it finds the job admitted  *)
(* and reported by an earlier step, and admits no job itself.              *)
(***************************************************************************)
C9_CallbackInLaterTurn ==
    [][\A i \in 1..Len(delivered') :
        LET j == delivered'[i].job
        IN  /\ Reported(j)
            /\ jobs[j].admits = 1
            /\ drained' = <<>>
            /\ admitLog' = admitLog
            /\ connections' = connections
    ]_vars

\* The callback of a failed execution has just run.
C9_Witness ==
    /\ delivered # <<>>
    /\ delivered[1].args \in Errors

(***************************************************************************)
(* C10.  With neither maxConnections nor sendingRate configured both       *)
(* ceilings are Infinity: no job is ever queued, the pending queue is      *)
(* always empty and no recheck timer is ever armed.                        *)
(***************************************************************************)
C10_UnboundedByDefault ==
    (options.maxConnections = 0 /\ options.sendingRate = 0) =>
        /\ maxConnections = Infinity
        /\ sendingRate = Infinity
        /\ pending = <<>>
        /\ timers = {}
        /\ sendingRateTTL = null
        /\ \A j \in Jobs : ~Queued(j)

\* Nothing configured and every job with the executor at once.
C10_Witness ==
    /\ options.maxConnections = 0
    /\ options.sendingRate = 0
    /\ connections = MaxJobs
    /\ \A j \in Jobs : InFlight(j)

(***************************************************************************)
(* C11.  A recheck timer armed by a rate refusal is due no earlier than    *)
(* the instant the oldest entry of the admission log leaves the window, so *)
(* that when it fires the rate check finds at least one entry gone.        *)
(***************************************************************************)
C11_TimerWaitsForWindow ==
    \A x \in timers :
        /\ rateMessages # <<>>
        /\ x.due >= rateMessages[1] + rateInterval

\* The entries of an admission log that are inside the window at now.
InWindow(log) == SelectSeq(log, LAMBDA at : at > now - rateInterval)

(***************************************************************************)
(* C12.  A redrive admits queued jobs until the queue is empty or an       *)
(* admission check refuses: the step of a redrive that admitted a job ends *)
(* with the pending queue empty, the concurrency ceiling reached or the    *)
(* rate window full.  (A redrive that admits nothing ended for one of the  *)
(* three.)                                                                 *)
(***************************************************************************)
C12_RedriveDrainsAll ==
    [][drained' # <<>> =>
          \/ pending' = <<>>
          \/ connections' >= maxConnections
          \/ Len(InWindow(rateMessages')) >= sendingRate
    ]_vars

(***************************************************************************)
(* C13.  At most one recheck timer is outstanding, and it is the one       *)
(* sendingRateTTL names: every rate check cancels the timer armed before   *)
(* it, so no timer that was replaced or cancelled is left to fire.         *)
(***************************************************************************)
C13_OneTimer ==
    /\ Cardinality(timers) <= 1
    /\ \A x \in timers : x.id = sendingRateTTL

\* Two rate refusals in a row, with no concurrency ceiling: the second
\* replaced the timer of the first.
C13_Witness ==
    /\ maxConnections = Infinity
    /\ Len(pending) >= 2
    /\ Cardinality(timers) = 1
    /\ \A x \in timers : x.id = sendingRateTTL /\ x.due > now

\* The step is the executor's report of job j: the release of its slot.
Released(j) ==
    /\ InFlight(j)
    /\ delivered' = <<>>
    /\ jobs'[j].stage = "reported"

(***************************************************************************)
(* C14.  When the executor reports a job while the pending queue is not    *)
(* empty and the rate window has budget, the head of the queue is admitted *)
(* in the step of the release, so the freed slot is never seen free by a   *)
(* later send: as long as jobs wait and the window has budget, every slot  *)
(* is taken.                                                               *)
(***************************************************************************)
C14_HeadTakesFreedSlot ==
    /\ [][\A j \in Jobs :
            (/\ Released(j)
             /\ pending # <<>>
             /\ Len(InWindow(rateMessages)) < sendingRate) =>
                /\ drained' = <<Head(pending)>>
                /\ jobs'[Head(pending)].stage = "executing"
                /\ pending' = Tail(pending)
                /\ connections' = connections
         ]_vars
    /\ []((pending # <<>> /\ sendingRate = Infinity) =>
             connections = maxConnections)

\* One slot, no rate ceiling: the first job has completed, the second has
\* its slot and the third, submitted after it, waits.
C14_Witness ==
    /\ maxConnections = 1
    /\ sendingRate = Infinity
    /\ Len(jobs) = 3
    /\ Reported(1)
    /\ InFlight(2)
    /\ drained = <<2>>
    /\ pending = <<3>>

(***************************************************************************)
(* C15.  On completion the job's own callback is invoked first, then the   *)
(* slot is released, then the queue is re-driven: the caller is notified   *)
(* before the release, so between steps no job has its slot released while *)
(* its callback has yet to run.                                            *)
(***************************************************************************)
C15_CallbackBeforeRelease ==
    \A j \in Jobs : Live(j) => jobs[j].releases = 0

\* The handles of the outstanding timers.
Armed(tm) == {x.id : x \in tm}

(***************************************************************************)
(* C16.  A refusal for the concurrency ceiling arms no timer and leaves    *)
(* the timer handle and the admission log as they are: a send that finds   *)
(* the ceiling reached only appends its job to the pending queue, and a    *)
(* redrive that finds it reached changes nothing but the timer that fired. *)
(***************************************************************************)
C16_BusyRefusalArmsNothing ==
    [][connections >= maxConnections =>
          /\ Len(jobs') = Len(jobs) + 1 =>
                /\ pending' = Append(pending, Len(jobs'))
                /\ jobs' = Append(jobs, [NewJob EXCEPT !.stage = "queued"])
                /\ timers' = timers
                /\ sendingRateTTL' = sendingRateTTL
                /\ rateMessages' = rateMessages
                /\ connections' = connections
                /\ drained' = <<>>
          /\ (Len(jobs') = Len(jobs) /\ connections' = connections
                  /\ drained' = <<>>) =>
                /\ Armed(timers') \subseteq Armed(timers)
                /\ sendingRateTTL' = sendingRateTTL
                /\ Len(rateMessages') = Len(rateMessages)
                /\ pending' = pending
    ]_vars

\* A send was refused for the concurrency ceiling while the rate window was
\* full as well: the job is queued and no timer was ever armed.
C16_Witness ==
    /\ connections = maxConnections
    /\ sendingRate < Infinity
    /\ Len(InWindow(rateMessages)) >= sendingRate
    /\ pending # <<>>
    /\ Queued(Len(jobs))
    /\ timers = {}
    /\ sendingRateTTL = null

(***************************************************************************)
(* C17.  The report of a job, with an error or with the delivery info,     *)
(* takes no timestamp that is inside the window out of the admission log   *)
(* and alters none: after the step the log holds the entries that were     *)
(* inside the window, in their order, followed by the timestamp of the job *)
(* the redrive admitted, if it admitted one.                               *)
(***************************************************************************)
C17_ReleaseKeepsTimestamps ==
    [][\A j \in Jobs :
        Released(j) =>
           /\ InWindow(rateMessages') =
                 InWindow(rateMessages)
                     \o (IF drained' = <<>> THEN <<>> ELSE <<now>>)
           /\ admitLog' = admitLog
                     \o (IF drained' = <<>> THEN <<>> ELSE <<now>>)
           /\ connections' = connections - 1 + Len(drained')
    ]_vars

\* A job has failed within the window of its admission: its timestamp still
\* fills the window, the next job was refused and waits for the timer.
C17_Witness ==
    /\ sendingRate = 1
    /\ connections = 0
    /\ \E j \in Jobs : Reported(j) /\ jobs[j].result \in Errors
    /\ InWindow(rateMessages) = <<now>>
    /\ pending # <<>>
    /\ timers # {}

\* The step ran _checkSendingRate: a send that found a free slot, the report
\* of a job, or a due timer that fired or was cleared.
RateChecked ==
    \/ Len(jobs') = Len(jobs) + 1 /\ connections < maxConnections
    \/ \E j \in Jobs : Released(j)
    \/ \E x \in timers : x.due <= now /\ x \notin timers'

\* The step handed a job to _send.
Admission == admitLog' = Append(admitLog, now)

(***************************************************************************)
(* C18.  The admission log is always in non-decreasing order; a rate check *)
(* drops exactly the entries t <= now - rateInterval and keeps every entry *)
(* t > now - rateInterval; right after an admission the log holds at most  *)
(* sendingRate entries, the last of them the admission's.                  *)
(***************************************************************************)
C18_LogOrderedAndPruned ==
    /\ [](\A i \in 1..Len(rateMessages), k \in 1..Len(rateMessages) :
            i < k => rateMessages[i] <= rateMessages[k])
    /\ [][/\ RateChecked =>
                rateMessages' = InWindow(rateMessages)
                    \o (IF Admission THEN <<now>> ELSE <<>>)
          /\ Admission =>
                /\ Len(rateMessages') <= sendingRate
                /\ rateMessages'[Len(rateMessages')] = now
       ]_vars

\* Three admissions under a ceiling of two: the first has left the window
\* and the log, the second is 999 ms old, the third is of this instant.
C18_Witness ==
    /\ sendingRate = 2
    /\ rateMessages = <<now - 999, now>>
    /\ Len(jobs) = 3
    /\ \A j \in Jobs : Admitted(j)

\* How many entries of the pending queue are job j.
Copies(j) == Cardinality({i \in 1..Len(pending) : pending[i] = j})

(***************************************************************************)
(* C19.  Every job that was submitted and whose execution has not          *)
(* completed is in exactly one place: with the executor, counted in        *)
(* connections, or in the pending queue, once; a job whose execution has   *)
(* completed is in neither.  connections is the number of jobs with the    *)
(* executor and the pending queue holds the waiting jobs and nothing else. *)
(***************************************************************************)
C19_OnePlacePerJob ==
    /\ \A j \in Jobs :
          /\ (Live(j) /\ ~Reported(j)) =>
                \/ InFlight(j) /\ Copies(j) = 0
                \/ ~InFlight(j) /\ Copies(j) = 1
          /\ Reported(j) => Copies(j) = 0
    /\ connections = Cardinality({j \in Jobs : InFlight(j)})
    /\ Len(pending) = Cardinality({j \in Jobs : Queued(j)})
    /\ \A i \in 1..Len(pending) : Queued(pending[i])

\* One job of each kind at once: the first has completed and awaits its
\* callback, the second is with the executor, the third waits in the queue.
C19_Witness ==
    /\ Len(jobs) = 3
    /\ Reported(1)
    /\ InFlight(2)
    /\ Queued(3)
    /\ connections = 1
    /\ pending = <<3>>
    /\ sendingRate < Infinity

(***************************************************************************)
(* C20.  No job is stranded: whenever the pending queue is not empty, a    *)
(* job is with the executor, whose report re-drives the queue, or a        *)
(* recheck timer is outstanding.                                           *)
(***************************************************************************)
C20_NoStranding ==
    pending # <<>> => (connections > 0 \/ timers # {})

\* Nothing is with the executor and the window has rolled: the due timer is
\* all that will admit the waiting job.
C20_Witness ==
    /\ pending # <<>>
    /\ connections = 0
    /\ Len(InWindow(rateMessages)) < sendingRate
    /\ \E x \in timers : x.id = sendingRateTTL /\ x.due <= now

====
